---- MODULE Spec2Model ----
(***************************************************************************)
(* Model of the PDF upload service: the two HTTP handlers of src/main.py   *)
(* (POST /api/upload, DELETE /api/delete) running against an S3 bucket.    *)
(* A handler is split at its remote S3 calls; everything between two calls *)
(* is local computation and belongs to the step of the preceding call.     *)
(***************************************************************************)
EXTENDS Integers, Sequences, FiniteSets, TLC

\* ---------------------------------------------------------------- bounds
NumProcs == 2
NumKeys == 2
NumContents == 2

Procs == 1..NumProcs
KeyName(i) == "doc" \o ToString(i) \o ".pdf"
Keys == {KeyName(i) : i \in 1..NumKeys}
Contents == 1..NumContents

\* A field that a JSON body or a response does not carry.
NoField == "<absent>"
\* JSON null / Python None.
Null == "<null>"

\* ------------------------------------------------------- program constants
ALLOWED_MIME_TYPES_WithDocx ==
    {"application/pdf",
     "application/vnd.openxmlformats-officedocument.wordprocessingml.document"}

ALLOWED_MIME_TYPES == {"application/pdf"}

\* MIME types a client may send; Null is a part without a Content-Type.
MimeTypes ==
    {"application/pdf",
     "application/vnd.openxmlformats-officedocument.wordprocessingml.document",
     "text/plain", Null}

\* ----------------------------------------------------------------- state
VARIABLES
    store,      \* the bucket: present keys -> [body, ContentType]
    pc,         \* per request slot: "idle", "head", "put", "delete", "done"
    req,        \* per request slot: the request being handled
    calls,      \* per request slot: the S3 calls the request has made, in order
    resp,       \* per request slot: the response produced
    pre,        \* per request slot: the bucket as it was when the request arrived
    last,       \* per key: the latest request for that key, if answered 200
    prior,      \* per request slot: last[key] as it was when the request arrived
    balance,    \* per key: 1 if it was in the bucket at the start, plus the
                \* uploads of it answered 200, minus the deletes answered 200
    env,        \* the environment: setting name -> value, NoField if not set
    settings    \* the settings object of config.py and how loading it ended

vars == <<store, pc, req, calls, resp, pre, last, prior, balance, env, settings>>

\* ------------------------------------------------------------ configuration
Fields == {"db_url", "bucket_name", "aws_access_key", "aws_secret_key"}

\* What the environment may hold for a setting: nothing, the empty string,
\* or a value.
EnvValue(f) == IF f = "bucket_name" THEN "edututor-bucket" ELSE f \o "-value"
EnvValues(f) == {NoField, "", EnvValue(f)}

\* The environments the server is started in: every setting absent, every
\* setting empty, and all settings given but for at most one of them.
Environments ==
    {[f \in Fields |-> v] : v \in {NoField, ""}}
    \cup UNION {{[f \in Fields |-> IF f = g THEN v ELSE EnvValue(f)] :
                    v \in EnvValues(g)} : g \in Fields}

NoSettings(state) ==
    [state |-> state, db_url |-> NoField, bucket_name |-> NoField,
     aws_access_key |-> NoField, aws_secret_key |-> NoField]

SettingsValidNonEmpty(e) == \A f \in Fields : e[f] \notin {NoField, ""}

\* Settings(): four required fields of type str.
SettingsValid(e) == \A f \in Fields : e[f] # NoField

\* load_settings(): the settings, or exit on a ValidationError.
load_settings(e) ==
    IF SettingsValid(e)
    THEN [state |-> "loaded", db_url |-> e.db_url, bucket_name |-> e.bucket_name,
          aws_access_key |-> e.aws_access_key,
          aws_secret_key |-> e.aws_secret_key]
    ELSE NoSettings("exited")

BUCKET_NAME == settings.bucket_name

\* The module has been imported: the app exists and takes requests.
Serving == settings.state = "loaded"

NoReq == [op |-> "none"]
\* The bucket with no object in it.
EmptyStore == [k \in {} |-> [body |-> 0, ContentType |-> NoField]]
NoResp == [status |-> 0, message |-> NoField, file_url |-> NoField,
           document_name |-> NoField, raised |-> NoField]

\* ------------------------------------------------------------ the S3 bucket
\* Outcomes of a call: an HTTP-like result, or the name of the exception.
\* "404" and "403" are botocore ClientError with that Error.Code; the other
\* names are exceptions that are not ClientError.
HeadResults(key) ==
    (IF key \in DOMAIN store THEN {"200"} ELSE {"404"})
        \cup {"403", "NoCredentialsError", "EndpointConnectionError"}

PutResults == {"ok", "NoCredentialsError", "S3UploadFailedError"}

DeleteResults == {"ok", "403", "NoCredentialsError", "EndpointConnectionError"}

IsClientError(result) == result \in {"404", "403"}

\* str(e)
Str(exc) == "An error occurred: " \o exc

S3PutIfAbsent(s, key, obj) ==
    IF key \in DOMAIN s THEN s
    ELSE [k \in (DOMAIN s) \cup {key} |-> IF k = key THEN obj ELSE s[k]]

S3Put(s, key, obj) ==
    [k \in (DOMAIN s) \cup {key} |-> IF k = key THEN obj ELSE s[k]]

S3DeleteKept(s, key) == s

S3DeleteAll(s, key) == EmptyStore

S3Delete(s, key) == [k \in (DOMAIN s) \ {key} |-> s[k]]

\* ---------------------------------------------------------------- responses
JSONResponse(status, message, file_url, document_name) ==
    [status |-> status, message |-> message, file_url |-> file_url,
     document_name |-> document_name, raised |-> NoField]

\* An exception that leaves the handler: the server answers 500 with a
\* plain-text body, which carries no message field.
Unhandled(exc) ==
    [status |-> 500, message |-> NoField, file_url |-> NoField,
     document_name |-> NoField, raised |-> exc]

\* FastAPI's answer to a request that fails parameter validation.
RequestValidationError ==
    [status |-> 422, message |-> NoField, file_url |-> NoField,
     document_name |-> NoField, raised |-> NoField]

FileUrlNoKey(bucket, key) == "https://" \o bucket \o ".s3.amazonaws.com/"

FileUrl(bucket, key) == "https://" \o bucket \o ".s3.amazonaws.com/" \o key

Event(op, key, rs) ==
    [op |-> op, key |-> key, status |-> rs.status, file_url |-> rs.file_url]

NoEvent == [op |-> "none", key |-> NoField, status |-> 0, file_url |-> NoField]

\* The request in slot p ends with response rs.
Respond(p, op, key, rs) ==
    /\ pc' = [pc EXCEPT ![p] = "done"]
    /\ resp' = [resp EXCEPT ![p] = rs]
    /\ last' = IF key \in Keys
               THEN [last EXCEPT ![key] =
                        IF rs.status = 200 THEN Event(op, key, rs) ELSE NoEvent]
               ELSE last
    /\ balance' = IF key \in Keys /\ rs.status = 200
                  THEN [balance EXCEPT ![key] =
                            IF op = "upload" THEN @ + 1 ELSE @ - 1]
                  ELSE balance

\* The request in slot p goes on to its next S3 call.
Goto(p, label) ==
    /\ pc' = [pc EXCEPT ![p] = label]
    /\ UNCHANGED <<resp, last, balance>>

\* ------------------------------------------------------------------ upload
UploadRequests ==
    [op : {"upload"}, has_file : {TRUE}, filename : Keys,
     content_type : MimeTypes, content : Contents]
    \cup {[op |-> "upload", has_file |-> FALSE, filename |-> NoField,
           content_type |-> NoField, content |-> 0]}

UploadExceptWithoutNoCredentials(exc) ==
    JSONResponse(500, Str(exc), NoField, NoField)

\* The outer except clauses of upload_pdf.
UploadExcept(exc) ==
    IF exc = "NoCredentialsError"
    THEN JSONResponse(500, "AWS credentials not available", NoField, NoField)
    ELSE JSONResponse(500, Str(exc), NoField, NoField)

\* upload_pdf up to its first S3 call.
UploadAccept(p) ==
    /\ Serving
    /\ pc[p] = "idle"
    /\ \E r \in UploadRequests :
        /\ req' = [req EXCEPT ![p] = r]
        /\ pre' = [pre EXCEPT ![p] = store]
        /\ prior' = [prior EXCEPT ![p] =
                        IF r.has_file THEN last[r.filename] ELSE NoEvent]
        /\ calls' = [calls EXCEPT ![p] = <<>>]
        /\ IF ~r.has_file
           THEN Respond(p, "upload", NoField, RequestValidationError)
           ELSE IF r.content_type \notin ALLOWED_MIME_TYPES
           THEN Respond(p, "upload", r.filename,
                    JSONResponse(400,
                        "Invalid file type. Only PDF files are allowed.",
                        NoField, NoField))
           ELSE Goto(p, "head")
    /\ UNCHANGED <<store, env, settings>>

\* One outcome of a step of a handler: a response, or the next S3 call.
Done(rs) == [goto |-> "done", resp |-> rs]
Continue(label) == [goto |-> label, resp |-> NoResp]

Finish(p, op, key, outcome) ==
    IF outcome.goto = "done"
    THEN Respond(p, op, key, outcome.resp)
    ELSE Goto(p, outcome.goto)

UploadHeadBranchOverwrite(result, file_url) ==
    IF result \in {"200", "404"}
    THEN Continue("put")
    ELSE IF IsClientError(result)
    THEN Done(JSONResponse(500, "Failed to check if file exists in S3.",
                           NoField, NoField))
    ELSE Done(UploadExcept(result))

UploadHeadBranchConflictAs404(result, file_url) ==
    IF result = "200"
    THEN Done(JSONResponse(404, "File already exists in the S3 bucket.",
                           file_url, NoField))
    ELSE IF IsClientError(result)
    THEN IF result # "404"
         THEN Done(JSONResponse(500, "Failed to check if file exists in S3.",
                                NoField, NoField))
         ELSE Continue("put")
    ELSE Done(UploadExcept(result))

UploadHeadBranchAnyErrorAbsent(result, file_url) ==
    IF result = "200"
    THEN Done(JSONResponse(409, "File already exists in the S3 bucket.",
                           file_url, NoField))
    ELSE IF IsClientError(result)
    THEN Continue("put")
    ELSE Done(UploadExcept(result))

\* What upload_pdf does with the outcome of head_object.
UploadHeadBranch(result, file_url) ==
    IF result = "200"
    THEN Done(JSONResponse(409, "File already exists in the S3 bucket.",
                           file_url, NoField))
    ELSE IF IsClientError(result)
    THEN IF result # "404"
         THEN Done(JSONResponse(500, "Failed to check if file exists in S3.",
                                NoField, NoField))
         ELSE Continue("put")
    ELSE Done(UploadExcept(result))

UploadHead(p) ==
    /\ pc[p] = "head"
    /\ req[p].op = "upload"
    /\ LET s3_file_key == req[p].filename IN
       \E result \in HeadResults(s3_file_key) :
        /\ calls' = [calls EXCEPT ![p] = Append(@,
                        [api |-> "head_object", key |-> s3_file_key,
                         result |-> result])]
        /\ Finish(p, "upload", s3_file_key,
                  UploadHeadBranch(result, FileUrl(BUCKET_NAME, s3_file_key)))
    /\ UNCHANGED <<store, req, pre, prior, env, settings>>

UploadPutBranchRetry(result, file_url) ==
    IF result = "ok"
    THEN Done(JSONResponse(200, "File uploaded successfully", file_url, NoField))
    ELSE Continue("put")

\* What upload_pdf does with the outcome of upload_fileobj.
UploadPutBranch(result, file_url) ==
    IF result = "ok"
    THEN Done(JSONResponse(200, "File uploaded successfully", file_url, NoField))
    ELSE Done(UploadExcept(result))

UploadPut(p) ==
    /\ pc[p] = "put"
    /\ req[p].op = "upload"
    /\ LET s3_file_key == req[p].filename IN
       \E result \in PutResults :
        /\ calls' = [calls EXCEPT ![p] = Append(@,
                        [api |-> "upload_fileobj", key |-> s3_file_key,
                         result |-> result])]
        /\ store' = IF result = "ok"
                    THEN S3Put(store, s3_file_key,
                               [body |-> req[p].content,
                                ContentType |-> req[p].content_type])
                    ELSE store
        /\ Finish(p, "upload", s3_file_key,
                  UploadPutBranch(result, FileUrl(BUCKET_NAME, s3_file_key)))
    /\ UNCHANGED <<req, pre, prior, env, settings>>

\* ------------------------------------------------------------------ delete
\* The body of a delete request: not JSON at all, JSON that is no object
\* (an array), or an object whose document_name is absent, null, empty or a
\* key.
DeleteRequests ==
    [op : {"delete"}, json : {"invalid", "array"}, document_name : {NoField}]
    \cup [op : {"delete"}, json : {"object"},
          document_name : {NoField, Null, ""} \cup Keys]

\* body.get("document_name")
BodyGet(r) == IF r.document_name = NoField THEN Null ELSE r.document_name

FalsyOnlyNone(v) == v = Null

\* not v
Falsy(v) == v \in {Null, ""}

\* The outer except clauses of delete_pdf; bound tells whether the local
\* document_name has been assigned when the exception is raised.
DeleteExcept(exc, bound) ==
    IF exc = "NoCredentialsError"
    THEN JSONResponse(500, "AWS credentials not available", NoField, NoField)
    ELSE IF ~bound
    THEN Unhandled("UnboundLocalError")
    ELSE JSONResponse(500, Str(exc), NoField, NoField)

\* delete_pdf up to its first S3 call.
DeleteParse(r) ==
    IF r.json = "invalid"
    THEN Done(DeleteExcept("JSONDecodeError", FALSE))
    ELSE IF r.json # "object"
    THEN Done(DeleteExcept("AttributeError", FALSE))
    ELSE IF Falsy(BodyGet(r))
    THEN Done(JSONResponse(400,
                  "document_name is required in the request body.",
                  NoField, NoField))
    ELSE Continue("head")

DeleteKey(r) ==
    IF r.json = "object" /\ BodyGet(r) \in Keys THEN BodyGet(r) ELSE NoField

DeleteAccept(p) ==
    /\ Serving
    /\ pc[p] = "idle"
    /\ \E r \in DeleteRequests :
        /\ req' = [req EXCEPT ![p] = r]
        /\ pre' = [pre EXCEPT ![p] = store]
        /\ prior' = [prior EXCEPT ![p] =
                        IF DeleteKey(r) \in Keys THEN last[DeleteKey(r)]
                        ELSE NoEvent]
        /\ calls' = [calls EXCEPT ![p] = <<>>]
        /\ Finish(p, "delete", DeleteKey(r), DeleteParse(r))
    /\ UNCHANGED <<store, env, settings>>

DeleteHeadBranchIgnore404(result) ==
    IF result \in {"200", "404"}
    THEN Continue("delete")
    ELSE IF IsClientError(result)
    THEN Done(JSONResponse(500, "Failed to check file in S3.", NoField, NoField))
    ELSE Done(DeleteExcept(result, TRUE))

DeleteHeadBranchAnyErrorPresent(result) ==
    IF result = "200"
    THEN Continue("delete")
    ELSE IF IsClientError(result)
    THEN IF result = "404"
         THEN Done(JSONResponse(404, "File not found in S3.", NoField, NoField))
         ELSE Continue("delete")
    ELSE Done(DeleteExcept(result, TRUE))

\* What delete_pdf does with the outcome of head_object.
DeleteHeadBranch(result) ==
    IF result = "200"
    THEN Continue("delete")
    ELSE IF IsClientError(result)
    THEN IF result = "404"
         THEN Done(JSONResponse(404, "File not found in S3.", NoField, NoField))
         ELSE Done(JSONResponse(500, "Failed to check file in S3.",
                                NoField, NoField))
    ELSE Done(DeleteExcept(result, TRUE))

DeleteHead(p) ==
    /\ pc[p] = "head"
    /\ req[p].op = "delete"
    /\ LET document_name == BodyGet(req[p]) IN
       \E result \in HeadResults(document_name) :
        /\ calls' = [calls EXCEPT ![p] = Append(@,
                        [api |-> "head_object", key |-> document_name,
                         result |-> result])]
        /\ Finish(p, "delete", document_name, DeleteHeadBranch(result))
    /\ UNCHANGED <<store, req, pre, prior, env, settings>>

\* What delete_pdf does with the outcome of delete_object.
DeleteObjectBranch(result, document_name) ==
    IF result = "ok"
    THEN Done(JSONResponse(200, "File deleted successfully", NoField,
                           document_name))
    ELSE Done(DeleteExcept(result, TRUE))

DeleteObject(p) ==
    /\ pc[p] = "delete"
    /\ req[p].op = "delete"
    /\ LET document_name == BodyGet(req[p]) IN
       \E result \in DeleteResults :
        /\ calls' = [calls EXCEPT ![p] = Append(@,
                        [api |-> "delete_object", key |-> document_name,
                         result |-> result])]
        /\ store' = IF result = "ok" THEN S3Delete(store, document_name)
                    ELSE store
        /\ Finish(p, "delete", document_name,
                  DeleteObjectBranch(result, document_name))
    /\ UNCHANGED <<req, pre, prior, env, settings>>

\* ------------------------------------------------------- the request ends
\* The response has been sent and the request's task is over.
Return(p) ==
    /\ pc[p] = "done"
    /\ pc' = [pc EXCEPT ![p] = "idle"]
    /\ req' = [req EXCEPT ![p] = NoReq]
    /\ resp' = [resp EXCEPT ![p] = NoResp]
    /\ calls' = [calls EXCEPT ![p] = <<>>]
    /\ pre' = [pre EXCEPT ![p] = EmptyStore]
    /\ prior' = [prior EXCEPT ![p] = NoEvent]
    /\ UNCHANGED <<store, last, balance, env, settings>>

\* ----------------------------------------------------------- specification
\* No request has arrived; the bucket holds any objects.
NoRequests ==
    /\ store \in {[k \in S |-> [body |-> 0, ContentType |-> "application/pdf"]] :
                    S \in SUBSET Keys}
    /\ pc = [p \in Procs |-> "idle"]
    /\ req = [p \in Procs |-> NoReq]
    /\ calls = [p \in Procs |-> <<>>]
    /\ resp = [p \in Procs |-> NoResp]
    /\ pre = [p \in Procs |-> EmptyStore]
    /\ last = [k \in Keys |-> NoEvent]
    /\ prior = [p \in Procs |-> NoEvent]
    /\ balance = [k \in Keys |-> IF k \in DOMAIN store THEN 1 ELSE 0]

\* The server has started in an environment that sets all four settings.
Init ==
    /\ NoRequests
    /\ env = [f \in Fields |-> EnvValue(f)]
    /\ settings = load_settings(env)

\* The server is one process with one event loop, and neither handler
\* awaits between its S3 calls: a request runs to its response before the
\* next one starts.
OthersIdle(p) == \A q \in Procs \ {p} : pc[q] = "idle"

UploadReceive(p) == OthersIdle(p) /\ UploadAccept(p)

DeleteReceive(p) == OthersIdle(p) /\ DeleteAccept(p)

Next ==
    \E p \in Procs :
        \/ UploadReceive(p)
        \/ UploadHead(p)
        \/ UploadPut(p)
        \/ DeleteReceive(p)
        \/ DeleteHead(p)
        \/ DeleteObject(p)
        \/ Return(p)

Spec == Init /\ [][Next]_vars

\* Several server processes (uvicorn workers, or replicas of the service)
\* share the bucket, and the S3 calls of different processes interleave in
\* any order. The races in question are between two requests: two processes
\* take one request each.
Racers == {p \in Procs : p <= 2}

UploadArrive(p) == p \in Racers /\ UploadAccept(p)

DeleteArrive(p) == p \in Racers /\ DeleteAccept(p)

NextConc ==
    \E p \in Procs :
        \/ UploadArrive(p)
        \/ UploadHead(p)
        \/ UploadPut(p)
        \/ DeleteArrive(p)
        \/ DeleteHead(p)
        \/ DeleteObject(p)

SpecConc == Init /\ [][NextConc]_vars

\* Start-up: config.py is imported in any environment, before any request.
InitConfig ==
    /\ NoRequests
    /\ env \in Environments
    /\ settings = NoSettings("boot")

\* settings = load_settings()
LoadSettings ==
    /\ settings.state = "boot"
    /\ settings' = load_settings(env)
    /\ UNCHANGED <<store, pc, req, calls, resp, pre, last, prior, balance, env>>

NextConfig == LoadSettings \/ Next

SpecConfig == InitConfig /\ [][NextConfig]_vars

\* ------------------------------------------------------------------ claims
Answered(p, op) == pc[p] = "done" /\ req[p].op = op

Started(p, op) == pc[p] # "idle" /\ req[p].op = op

Called(p, api) == \E i \in 1..Len(calls[p]) : calls[p][i].api = api

\* The existence check of the request in slot p has answered result.
Checked(p, result) ==
    /\ Len(calls[p]) >= 1
    /\ calls[p][1].api = "head_object"
    /\ calls[p][1].result = result

\* C1: an upload whose MIME type is not application/pdf is answered 400, has
\* made no S3 call and has left the bucket as it was.
C1_DisallowedMimeRejected ==
    \A p \in Procs :
        (/\ Answered(p, "upload")
         /\ req[p].has_file
         /\ req[p].content_type # "application/pdf")
        => /\ resp[p].status = 400
           /\ calls[p] = <<>>
           /\ store = pre[p]

C1_Witness ==
    \E p \in Procs :
        /\ Answered(p, "upload")
        /\ req[p].has_file
        /\ req[p].content_type = "text/plain"
        /\ req[p].filename \in DOMAIN store
        /\ resp[p].status = 400

\* C2: an upload of an allowed MIME type whose existence check finds the key
\* is answered 409 without ever calling put, and the object stored under the
\* key is the one that was there.
C2_ExistingKeyConflict ==
    \A p \in Procs :
        (/\ Started(p, "upload")
         /\ req[p].content_type = "application/pdf"
         /\ Checked(p, "200"))
        => /\ pc[p] = "done"
           /\ resp[p].status = 409
           /\ ~Called(p, "upload_fileobj")
           /\ req[p].filename \in DOMAIN store
           /\ store = pre[p]

C2_Witness ==
    \E p \in Procs :
        /\ Answered(p, "upload")
        /\ Checked(p, "200")
        /\ resp[p].status = 409
        /\ store[req[p].filename].body # req[p].content

\* C3: an upload of an allowed MIME type whose existence check answers
\* NotFound goes on to put under key = file name; when the put succeeds the
\* answer is 200 with file_url https://{bucket}.s3.amazonaws.com/{key} and
\* the key is in the bucket.
C3_AbsentKeyUploaded ==
    \A p \in Procs :
        (/\ Started(p, "upload")
         /\ req[p].content_type = "application/pdf"
         /\ Checked(p, "404"))
        => /\ pc[p] \in {"put", "done"}
           /\ pc[p] = "done" =>
                /\ Len(calls[p]) = 2
                /\ calls[p][2].api = "upload_fileobj"
                /\ calls[p][2].key = req[p].filename
                /\ calls[p][2].result = "ok" =>
                    /\ resp[p].status = 200
                    /\ resp[p].file_url =
                        "https://" \o BUCKET_NAME \o ".s3.amazonaws.com/"
                            \o req[p].filename
                    /\ req[p].filename \in DOMAIN store
                    /\ store[req[p].filename].body = req[p].content

C3_Witness ==
    \E p \in Procs :
        /\ Answered(p, "upload")
        /\ Checked(p, "404")
        /\ Called(p, "upload_fileobj")
        /\ resp[p].status = 200
        /\ req[p].filename \notin DOMAIN pre[p]
        /\ req[p].filename \in DOMAIN store

\* C4: a delete whose JSON object has no document_name (absent, null or
\* empty) is answered 400 with the fixed message and has made no S3 call.
C4_MissingDocumentName ==
    \A p \in Procs :
        (/\ Answered(p, "delete")
         /\ req[p].json = "object"
         /\ req[p].document_name \in {NoField, Null, ""})
        => /\ resp[p].status = 400
           /\ resp[p].message = "document_name is required in the request body."
           /\ calls[p] = <<>>
           /\ store = pre[p]

C4_Witness ==
    \E p \in Procs :
        /\ Answered(p, "delete")
        /\ req[p].json = "object"
        /\ req[p].document_name = ""
        /\ resp[p].status = 400
        /\ DOMAIN store # {}

\* C5: a delete with a document_name whose existence check answers NotFound
\* is answered 404 without ever calling delete, and the bucket is as it was.
C5_DeleteAbsentKey ==
    \A p \in Procs :
        (/\ Started(p, "delete")
         /\ Checked(p, "404"))
        => /\ pc[p] = "done"
           /\ resp[p].status = 404
           /\ ~Called(p, "delete_object")
           /\ store = pre[p]

C5_Witness ==
    \E p \in Procs :
        /\ Answered(p, "delete")
        /\ Checked(p, "404")
        /\ resp[p].status = 404
        /\ DOMAIN store # {}

\* C6: a delete with a document_name that is in the bucket and whose delete
\* call succeeds is answered 200 "File deleted successfully" with the same
\* document_name, and the key is no longer in the bucket.
C6_DeletePresentKey ==
    \A p \in Procs :
        (/\ Answered(p, "delete")
         /\ req[p].json = "object"
         /\ req[p].document_name \in DOMAIN pre[p]
         /\ \E i \in 1..Len(calls[p]) :
                calls[p][i].api = "delete_object" /\ calls[p][i].result = "ok")
        => /\ resp[p].status = 200
           /\ resp[p].message = "File deleted successfully"
           /\ resp[p].document_name = req[p].document_name
           /\ req[p].document_name \notin DOMAIN store

C6_Witness ==
    \E p \in Procs :
        /\ Answered(p, "delete")
        /\ req[p].json = "object"
        /\ req[p].document_name \in DOMAIN pre[p]
        /\ Called(p, "delete_object")
        /\ resp[p].status = 200
        /\ req[p].document_name \notin DOMAIN store

\* The existence check of the request in slot p has failed with something
\* other than NotFound.
CheckFailed(p) ==
    /\ Len(calls[p]) >= 1
    /\ calls[p][1].api = "head_object"
    /\ calls[p][1].result \notin {"200", "404"}

\* The request in slot p is the next request for its key after one of
\* kind op that was answered 200.
FollowsOk(p, op) == prior[p].op = op /\ prior[p].status = 200

\* C7, as stated: the next upload of a key after an upload of it was answered
\* 200, with no delete of the key in between, is answered 409 with the same
\* file_url.
C7_ReuploadIs409 ==
    \A p \in Procs :
        (/\ Answered(p, "upload")
         /\ req[p].has_file
         /\ FollowsOk(p, "upload"))
        => /\ resp[p].status = 409
           /\ resp[p].file_url = prior[p].file_url

\* C7, amended: that upload is never answered 200; it is answered 400 when
\* its MIME type is not allowed, 500 when its existence check fails, and
\* otherwise 409 with the file_url of the first upload.
C7_ReuploadNever200 ==
    \A p \in Procs :
        (/\ Answered(p, "upload")
         /\ req[p].has_file
         /\ FollowsOk(p, "upload"))
        => /\ resp[p].status # 200
           /\ store = pre[p]
           /\ IF req[p].content_type # "application/pdf"
              THEN resp[p].status = 400
              ELSE IF CheckFailed(p)
              THEN resp[p].status = 500
              ELSE /\ resp[p].status = 409
                   /\ resp[p].file_url = prior[p].file_url

C7_Witness ==
    \E p \in Procs :
        /\ Answered(p, "upload")
        /\ req[p].has_file
        /\ FollowsOk(p, "upload")
        /\ Checked(p, "200")
        /\ resp[p].status = 409
        /\ resp[p].file_url = prior[p].file_url

\* C8, as stated: the next delete of a key after a delete of it was answered
\* 200, with no upload of the key in between, is answered 404.
C8_RedeleteIs404 ==
    \A p \in Procs :
        (/\ Answered(p, "delete")
         /\ FollowsOk(p, "delete"))
        => resp[p].status = 404

\* C8, amended: that delete is never answered 200; it is answered 500 when
\* its existence check fails, and otherwise 404.
C8_RedeleteNever200 ==
    \A p \in Procs :
        (/\ Answered(p, "delete")
         /\ FollowsOk(p, "delete"))
        => /\ resp[p].status # 200
           /\ ~Called(p, "delete_object")
           /\ IF CheckFailed(p)
              THEN resp[p].status = 500
              ELSE resp[p].status = 404

C8_Witness ==
    \E p \in Procs :
        /\ Answered(p, "delete")
        /\ FollowsOk(p, "delete")
        /\ Checked(p, "404")
        /\ resp[p].status = 404

\* The handler has been entered for the request in slot p: parameter
\* validation, which runs before upload_pdf, has let it pass.
Handled(p) ==
    pc[p] = "done" /\ (req[p].op = "upload" => req[p].has_file)

\* C9: no exception leaves a handler; every request a handler has handled
\* is answered with a JSON body that carries a message.
C9_NoExceptionEscapes ==
    \A p \in Procs :
        Handled(p) => /\ resp[p].raised = NoField
                      /\ resp[p].message # NoField

CheckFailureMessage(result, fixed) ==
    IF result = "403" THEN fixed
    ELSE IF result = "NoCredentialsError" THEN "AWS credentials not available"
    ELSE "An error occurred: " \o result

\* C11, as stated: an upload whose existence check fails with anything other
\* than NotFound is answered 500 "Failed to check if file exists in S3." and
\* never calls put.
C11_UploadCheckFailureMessage ==
    \A p \in Procs :
        (Started(p, "upload") /\ CheckFailed(p))
        => /\ pc[p] = "done"
           /\ resp[p].status = 500
           /\ resp[p].message = "Failed to check if file exists in S3."
           /\ ~Called(p, "upload_fileobj")

\* C11, amended: that upload is answered 500 and never calls put; the
\* message is "Failed to check if file exists in S3." only for a ClientError,
\* "AWS credentials not available" for NoCredentialsError and the text of
\* the exception for any other exception.
C11_UploadCheckFailure ==
    \A p \in Procs :
        (Started(p, "upload") /\ CheckFailed(p))
        => /\ pc[p] = "done"
           /\ resp[p].status = 500
           /\ resp[p].message =
                CheckFailureMessage(calls[p][1].result,
                                    "Failed to check if file exists in S3.")
           /\ ~Called(p, "upload_fileobj")
           /\ Len(calls[p]) = 1
           /\ store = pre[p]

C11_Witness ==
    \E p \in Procs :
        /\ Answered(p, "upload")
        /\ Checked(p, "403")
        /\ resp[p].status = 500
        /\ resp[p].message = "Failed to check if file exists in S3."

\* C12, as stated: a delete whose existence check fails with anything other
\* than NotFound is answered 500 "Failed to check file in S3." and never
\* calls delete.
C12_DeleteCheckFailureMessage ==
    \A p \in Procs :
        (Started(p, "delete") /\ CheckFailed(p))
        => /\ pc[p] = "done"
           /\ resp[p].status = 500
           /\ resp[p].message = "Failed to check file in S3."
           /\ ~Called(p, "delete_object")

\* C12, amended: that delete is answered 500 and never calls delete; the
\* message is "Failed to check file in S3." only for a ClientError, "AWS
\* credentials not available" for NoCredentialsError and the text of the
\* exception for any other exception.
C12_DeleteCheckFailure ==
    \A p \in Procs :
        (Started(p, "delete") /\ CheckFailed(p))
        => /\ pc[p] = "done"
           /\ resp[p].status = 500
           /\ resp[p].message =
                CheckFailureMessage(calls[p][1].result,
                                    "Failed to check file in S3.")
           /\ ~Called(p, "delete_object")
           /\ Len(calls[p]) = 1
           /\ store = pre[p]

C12_Witness ==
    \E p \in Procs :
        /\ Answered(p, "delete")
        /\ Checked(p, "403")
        /\ req[p].document_name \in DOMAIN store
        /\ resp[p].status = 500
        /\ resp[p].message = "Failed to check file in S3."

\* The put or delete call of the request in slot p has failed.
WriteFailed(p) ==
    /\ Len(calls[p]) = 2
    /\ calls[p][2].api \in {"upload_fileobj", "delete_object"}
    /\ calls[p][2].result # "ok"

C14_SettingsNonEmpty ==
    /\ settings.state = "loaded" =>
            \A f \in Fields : env[f] \notin {NoField, ""}
    /\ settings.state # "loaded" => \A p \in Procs : pc[p] = "idle"

\* C14, amended: the settings load exactly if all four are present, an empty
\* string being accepted; when one is absent the process exits and serves no
\* request.
C14_SettingsPresent ==
    /\ settings.state = "loaded" =>
            \A f \in Fields : env[f] # NoField /\ settings[f] = env[f]
    /\ settings.state = "exited" => \E f \in Fields : env[f] = NoField
    /\ settings.state # "loaded" =>
            /\ \A p \in Procs : pc[p] = "idle" /\ req[p] = NoReq
            /\ \A k \in Keys : last[k] = NoEvent
    /\ (\E p \in Procs : pc[p] # "idle") => settings.state = "loaded"

C14_Witness ==
    /\ settings.state = "loaded"
    /\ env.bucket_name = ""
    /\ \E p \in Procs : Answered(p, "upload") /\ resp[p].status = 200

\* C15: the existence check and the put of an upload are not atomic. An
\* upload that was answered NotFound puts its object whatever the bucket
\* holds by then, overwriting an object another upload has put since the
\* check, and is answered 200; with two uploads of one absent key, both are
\* answered 200 in one interleaving (C15_Witness) and one is answered 409 in
\* another (C15_OneConflict).
C15_PutOverwrites ==
    [][\A p \in Procs :
        (pc[p] = "put" /\ pc'[p] = "done" /\ resp'[p].status = 200)
        => /\ Checked(p, "404")
           /\ req[p].filename \in DOMAIN store'
           /\ store'[req[p].filename] =
                [body |-> req[p].content, ContentType |-> req[p].content_type]
           /\ \A k \in DOMAIN store \ {req[p].filename} :
                k \in DOMAIN store' /\ store'[k] = store[k]]_vars

\* Two uploads of one key, which was absent when they arrived.
RacingUploads(p, q) ==
    /\ p # q
    /\ Answered(p, "upload") /\ req[p].has_file
    /\ Answered(q, "upload") /\ req[q].has_file
    /\ req[p].filename = req[q].filename
    /\ req[p].filename \notin DOMAIN pre[p]
    /\ req[q].filename \notin DOMAIN pre[q]

C15_Witness ==
    \E p, q \in Procs :
        /\ RacingUploads(p, q)
        /\ Checked(p, "404") /\ Checked(q, "404")
        /\ resp[p].status = 200 /\ resp[q].status = 200
        /\ req[p].content # req[q].content
        /\ store[req[p].filename].body = req[q].content
        /\ balance[req[p].filename] = 2

C15_OneConflict ==
    \E p, q \in Procs :
        /\ RacingUploads(p, q)
        /\ Checked(p, "404") /\ Checked(q, "200")
        /\ resp[p].status = 200 /\ resp[q].status = 409
        /\ store[req[p].filename].body = req[p].content

\* The key the request in slot p is about.
RequestKey(p) ==
    IF req[p].op = "upload" THEN req[p].filename ELSE BodyGet(req[p])

\* The i-th S3 call of the request in slot p has failed. NotFound from the
\* existence check is the answer an upload goes on from.
CallFailed(p, i) ==
    /\ calls[p][i].result \notin {"200", "ok"}
    /\ ~(req[p].op = "upload" /\ calls[p][i].api = "head_object"
         /\ calls[p][i].result = "404")

\* C16: a request makes at most two S3 calls, all for its own key: the
\* existence check, once and first, and then at most one upload_fileobj
\* (upload, after the check has answered NotFound) or delete_object (delete,
\* after the check has found the key). A call that fails is the last call of
\* its request, which is answered at once: 404 for a delete whose check has
\* answered NotFound, 500 otherwise.
C16_NoRetries ==
    \A p \in Procs :
        pc[p] # "idle"
        => /\ Len(calls[p]) <= 2
           /\ \A i \in 1..Len(calls[p]) :
                /\ calls[p][i].api = "head_object" <=> i = 1
                /\ calls[p][i].key = RequestKey(p)
                /\ CallFailed(p, i)
                   => /\ i = Len(calls[p])
                      /\ pc[p] = "done"
                      /\ resp[p].status =
                            IF calls[p][i].result = "404" THEN 404 ELSE 500
           /\ (pc[p] = "put" \/ Called(p, "upload_fileobj"))
              => req[p].op = "upload" /\ Checked(p, "404")
           /\ (pc[p] = "delete" \/ Called(p, "delete_object"))
              => req[p].op = "delete" /\ Checked(p, "200")
           /\ pc[p] = "head" => calls[p] = <<>>
           /\ pc[p] \in {"put", "delete"} => Len(calls[p]) = 1

C16_Witness ==
    \E p \in Procs :
        /\ Answered(p, "delete")
        /\ Len(calls[p]) = 2
        /\ Checked(p, "200")
        /\ calls[p][2].api = "delete_object"
        /\ calls[p][2].result = "403"
        /\ resp[p].status = 500
        /\ RequestKey(p) \in DOMAIN store

\* C17: while a request is handled, the bucket differs from the bucket the
\* request found at most at the request's own key, and only once the request
\* is answered 200; an upload removes no key and a delete adds none.
C17_Frame ==
    \A p \in Procs :
        pc[p] # "idle"
        => /\ \A k \in Keys \ {RequestKey(p)} :
                /\ k \in DOMAIN store <=> k \in DOMAIN pre[p]
                /\ k \in DOMAIN store => store[k] = pre[p][k]
           /\ (pc[p] # "done" \/ resp[p].status # 200) => store = pre[p]
           /\ req[p].op = "upload" => DOMAIN pre[p] \subseteq DOMAIN store
           /\ req[p].op = "delete" => DOMAIN store \subseteq DOMAIN pre[p]

C17_Witness ==
    \E p \in Procs, k \in Keys :
        /\ Answered(p, "delete")
        /\ resp[p].status = 200
        /\ RequestKey(p) \in DOMAIN pre[p]
        /\ RequestKey(p) \notin DOMAIN store
        /\ k # RequestKey(p)
        /\ k \in DOMAIN store
        /\ store[k] = pre[p][k]

RacingDeletes(p, q, k) ==
    /\ p # q
    /\ Answered(p, "delete") /\ Answered(q, "delete")
    /\ req[p].document_name = k /\ req[q].document_name = k
    /\ Checked(p, "200") /\ Checked(q, "200")
    /\ resp[p].status = 200 /\ resp[q].status = 200

====
